---------------------------- MODULE Spec2Model ----------------------------
(***************************************************************************)
(* State-machine model of three widgets of iTwinUI-react:                  *)
(*   - VirtualScroll (src/src/core/utils/components/VirtualScroll.tsx)     *)
(*   - ComboBox      (src/unnamed/part_001 and ComboBoxInput.tsx)          *)
(*   - NotificationMarker (NotificationMarker/NotificationMarker.tsx)      *)
(* The widgets do not interact.  SpecVS runs the VirtualScroll with the    *)
(* ComboBox left unmounted, SpecCB runs the ComboBox with the              *)
(* VirtualScroll left untouched, SpecNM runs the NotificationMarker; a     *)
(* widget that is not run is not rendered.                                 *)
(*                                                                         *)
(* Lengths: measured heights, scroll offsets and container heights are     *)
(* integers in hundredths of a pixel; the raw DOM heights of rows are in   *)
(* thousandths of a pixel, and toFixed(2) rounds them to hundredths.       *)
(***************************************************************************)
EXTENDS Integers, Sequences, FiniteSets, TLC

VARIABLES
  \* ---- VirtualScroll ----
  itemsLength,            \* prop itemsLength
  bufferSize,             \* prop bufferSize
  scrollToIndex,          \* prop scrollToIndex
  startNode,              \* React state startNode
  visibleNodeCount,       \* React state visibleNodeCount
  scrollContainerHeight,  \* React state scrollContainerHeight
  childHeight,            \* ref childHeight: [firstChild, child, lastChild]
  prevLength,             \* visibleChildren.length seen by the last commit
  scrollTop,              \* DOM: scrollTop of the scroll container
  domHeight,              \* DOM: height of the scroll container
  rowRaw,                 \* DOM: raw height+margins of a row (thousandths)
  firstRaw,               \* DOM: raw height+margins of item 0 (thousandths)
  translateY,             \* DOM: transform applied to the inner wrapper
  vsEvent,                \* the event handled by the last step
  \* ---- ComboBox ----
  options,                \* prop options: sequence of option objects
  valueProp,              \* prop value: a value (single), an array (multiple)
  multiple,               \* prop multiple
  enableVirtualization,   \* prop enableVirtualization
  filterFunction,         \* prop filterFunction: "none" or "prefix"
  cb,                     \* the component: reducer state, useState, refs, DOM,
                          \* and the onChange calls made during the last step
  \* ---- NotificationMarker ----
  markerProps,            \* the props the caller passes to the element
  markerDom,              \* DOM: the <div> rendered for these props
  \* ---- VirtualScroll: scroll listener ----
  listener                \* the instance's onScroll callback and refs, and
                          \* DOM: the scroll listeners registered by it

vsVars == <<itemsLength, bufferSize, scrollToIndex, startNode, visibleNodeCount,
            scrollContainerHeight, childHeight, prevLength, scrollTop,
            domHeight, rowRaw, firstRaw, translateY, vsEvent>>

cbVars == <<options, valueProp, multiple, enableVirtualization, filterFunction,
            cb>>

nmVars == <<markerProps, markerDom>>

slVars == <<listener>>

vars == <<vsVars, cbVars, nmVars, slVars>>

\* no NotificationMarker is rendered
NoMarker == markerProps = <<>> /\ markerDom = <<>>

\* the scroll listeners of the VirtualScroll are not followed
NoListener == listener = <<>>

(***************************************************************************)
(* Bounds of the VirtualScroll model                                       *)
(***************************************************************************)
MaxItems == 3
MaxBuffer == 1
MaxScrollSteps == 3
MaxHeightSteps == 2

\* one scroll step and one container-height step, in hundredths of a pixel
ScrollStep == 150
HeightStep == 200

ItemCounts == 0..MaxItems
BufferSizes == 0..MaxBuffer
ScrollOffsets == {k * ScrollStep : k \in 0..MaxScrollSteps}
ContainerHeights == {k * HeightStep : k \in 0..MaxHeightSteps}
\* raw DOM row heights, in thousandths of a pixel
RowRawHeights == {1000, 2004}
FirstRawHeights == {1000, 1496}
ScrollToIndexes == {0, 2}

Max(a, b) == IF a >= b THEN a ELSE b
Min(a, b) == IF a <= b THEN a ELSE b

\* the value of an omitted optional argument
Undefined == -1

(***************************************************************************)
(* Pure helpers of VirtualScroll.tsx                                       *)
(***************************************************************************)
\* Number(x.toFixed(2)): a raw height in thousandths, rounded to hundredths
toFixed2(raw) == (raw + 5) \div 10

\* DOM: height with margins of the rendered item with index i (thousandths)
getElementHeightWithMargins(i) == IF i = 0 THEN firstRaw ELSE rowRaw

\* getNumberOfNodesInHeight that takes an unmeasured row for one node
getNumberOfNodesInHeightUnguarded(child, totalHeight) ==
  IF child = 0 THEN 1 ELSE totalHeight \div child

\* getNumberOfNodesInHeight that also counts the row containing the offset
getNumberOfNodesInHeightInclusive(child, totalHeight) ==
  IF child = 0 THEN 0 ELSE (totalHeight \div child) + 1

getNumberOfNodesInHeight(child, totalHeight) ==
  IF child = 0 THEN 0 ELSE totalHeight \div child

\* getTranslateValue for rows that all have the height of the second row
getTranslateValueUniform(child, firstChild, startIndex) ==
  child * startIndex

getTranslateValue(child, firstChild, startIndex) ==
  IF startIndex > 0 THEN child * (startIndex - 1) + firstChild ELSE 0

\* getVisibleNodeCount without the Math.min against the remaining children
getVisibleNodeCountUnclipped(child, start, childrenLength, containerHeight) ==
  getNumberOfNodesInHeight(child, containerHeight)

getVisibleNodeCount(child, start, childrenLength, containerHeight) ==
  Min(childrenLength - start, getNumberOfNodesInHeight(child, containerHeight))

\* visibleChildren without the Math.min against itemsLength
visibleChildrenUnclipped(items, buffer, start, count) ==
  start .. (start + count + buffer * 2 - 1)

\* the children rendered for a window: the indexes passed to itemRenderer
visibleChildrenOf(items, buffer, start, count) ==
  start .. (Min(items, start + count + buffer * 2) - 1)

visibleChildren ==
  visibleChildrenOf(itemsLength, bufferSize, startNode, visibleNodeCount)

\* layout effect "Get child height when children available": the ref after a
\* commit that renders window (start, count) over items/buffer
measuredChildHeight(items, buffer, start, count) ==
  LET kids == visibleChildrenOf(items, buffer, start, count)
      len  == Cardinality(kids)
  IN IF len = prevLength \/ len = 0
       THEN childHeight
       ELSE [firstChild |-> toFixed2(getElementHeightWithMargins(start)),
             child      |-> IF len >= 2
                              THEN toFixed2(getElementHeightWithMargins(start + 1))
                              ELSE 0,
             lastChild  |-> toFixed2(getElementHeightWithMargins(start + len - 1))]

\* one commit of the component with the given props and window state
Commit(items, buffer, start, count) ==
  /\ childHeight' = measuredChildHeight(items, buffer, start, count)
  /\ prevLength' = Cardinality(visibleChildrenOf(items, buffer, start, count))

\* updateVirtualScroll(scrollTop?), followed by the commit it causes
updateVirtualScroll(arg, top, height) ==
  LET offset     == IF arg = Undefined THEN top ELSE arg
      start      == getNumberOfNodesInHeight(childHeight.child, offset)
      startIndex == Max(0, start - bufferSize)
      count      == getVisibleNodeCount(childHeight.child, start, itemsLength, height)
  IN /\ startNode' = startIndex
     /\ visibleNodeCount' = count
     /\ translateY' = getTranslateValue(childHeight.child,
                                        childHeight.firstChild, startIndex)
     /\ scrollTop' = IF arg = Undefined \/ arg = 0 THEN top ELSE arg
     /\ Commit(itemsLength, bufferSize, startIndex, count)

(***************************************************************************)
(* VirtualScroll: initial state (after the mounting commit) and events     *)
(***************************************************************************)
InitVS ==
  /\ itemsLength \in ItemCounts
  /\ bufferSize \in BufferSizes
  /\ scrollToIndex \in ScrollToIndexes
  /\ rowRaw \in RowRawHeights
  /\ firstRaw \in FirstRawHeights
  /\ domHeight \in ContainerHeights
  /\ startNode = 0
  /\ visibleNodeCount = 0
  /\ scrollContainerHeight = 0
  /\ scrollTop = 0
  /\ translateY = 0
  /\ prevLength = Min(itemsLength, bufferSize * 2)
  /\ childHeight =
       LET len == Min(itemsLength, bufferSize * 2)
       IN IF len = 0
            THEN [firstChild |-> 0, child |-> 0, lastChild |-> 0]
            ELSE [firstChild |-> toFixed2(getElementHeightWithMargins(0)),
                  child      |-> IF len >= 2
                                   THEN toFixed2(getElementHeightWithMargins(1))
                                   ELSE 0,
                  lastChild  |-> toFixed2(getElementHeightWithMargins(len - 1))]
  /\ vsEvent = "mount"
  \* no ComboBox
  /\ multiple = FALSE
  /\ enableVirtualization = FALSE
  /\ filterFunction = "none"
  /\ options = <<>>
  /\ valueProp = 0
  /\ cb = [phase |-> "unmounted"]
  /\ NoMarker
  /\ NoListener

\* a scroll event of the scroll container at offset t
Scroll(t) ==
  /\ vsEvent' = "scroll"
  /\ updateVirtualScroll(Undefined, t, domHeight)
  /\ UNCHANGED <<itemsLength, bufferSize, scrollToIndex, scrollContainerHeight,
                 domHeight, rowRaw, firstRaw>>
  /\ UNCHANGED cbVars
  /\ UNCHANGED nmVars
  /\ UNCHANGED slVars

\* a resize observer whose every report recomputes the window
ResizeAlways(h) ==
  /\ domHeight' = h
  /\ scrollContainerHeight' = h
  /\ vsEvent' = "resize"
  /\ updateVirtualScroll(
       IF scrollToIndex > 0
         THEN (scrollToIndex - 1) * childHeight.child + childHeight.firstChild
         ELSE Undefined,
       scrollTop, h)
  /\ UNCHANGED <<itemsLength, bufferSize, scrollToIndex, rowRaw, firstRaw>>
  /\ UNCHANGED cbVars
  /\ UNCHANGED nmVars
  /\ UNCHANGED slVars

\* the resize observer reports height h: onResize, then the layout effect
Resize(h) ==
  /\ domHeight' = h
  /\ scrollContainerHeight' = h
  /\ IF h # scrollContainerHeight /\ h # 0
       THEN /\ vsEvent' = "resize"
            /\ updateVirtualScroll(
                 IF scrollToIndex > 0
                   THEN (scrollToIndex - 1) * childHeight.child
                          + childHeight.firstChild
                   ELSE Undefined,
                 scrollTop, h)
       ELSE /\ vsEvent' = "resizeIgnored"
            /\ UNCHANGED <<startNode, visibleNodeCount, translateY, scrollTop,
                           childHeight, prevLength>>
  /\ UNCHANGED <<itemsLength, bufferSize, scrollToIndex, rowRaw, firstRaw>>
  /\ UNCHANGED cbVars
  /\ UNCHANGED nmVars
  /\ UNCHANGED slVars

\* the parent re-renders the component with a new itemsLength
SetItemsLength(n) ==
  /\ n # itemsLength
  /\ itemsLength' = n
  /\ vsEvent' = "itemsLength"
  /\ Commit(n, bufferSize, startNode, visibleNodeCount)
  /\ UNCHANGED <<bufferSize, scrollToIndex, startNode, visibleNodeCount,
                 scrollContainerHeight, scrollTop, domHeight, rowRaw, firstRaw,
                 translateY>>
  /\ UNCHANGED cbVars
  /\ UNCHANGED nmVars
  /\ UNCHANGED slVars

\* the parent re-renders the component with a new bufferSize
SetBufferSize(b) ==
  /\ b # bufferSize
  /\ bufferSize' = b
  /\ vsEvent' = "bufferSize"
  /\ Commit(itemsLength, b, startNode, visibleNodeCount)
  /\ UNCHANGED <<itemsLength, scrollToIndex, startNode, visibleNodeCount,
                 scrollContainerHeight, scrollTop, domHeight, rowRaw, firstRaw,
                 translateY>>
  /\ UNCHANGED cbVars
  /\ UNCHANGED nmVars
  /\ UNCHANGED slVars

(***************************************************************************)
(* ComboBox: the inputs a caller can supply                                *)
(***************************************************************************)
MaxOptions == 3
MaxValues == 1

\* option objects: label, value, disabled, and the optional isSelected field
OptionObjects == 1..MaxOptions
Label(o) ==
  CASE o = 1 -> <<"A", "b">>
    [] o = 2 -> <<"b">>
    [] o = 3 -> <<"C", "a">>
    [] OTHER -> <<"B", "c", "d">>
Value(o) == 10 + o
IsDisabled(o) == o = 2
IsSelectedField(o) == o = 3
Values == {Value(o) : o \in OptionObjects}

\* value: undefined
NoValue == 0
\* index: none
NoIndex == -1
\* Number(undefined)
NaN == -2

SeqsUpTo(S, n) == UNION {[1..m -> S] : m \in 0..n}

\* the option sequences a caller supplies: the first n options of the cyclic
\* order that starts at option k
RECURSIVE Rotation(_, _)
Rotation(k, n) ==
  IF n = 0 THEN <<>>
  ELSE Append(Rotation(k, n - 1), ((k + n - 2) % MaxOptions) + 1)
OptionSeqs == {Rotation(k, n) : k \in OptionObjects, n \in 0..MaxOptions}

ValueProps(mult) ==
  IF mult THEN SeqsUpTo(Values, MaxValues) ELSE Values \cup {NoValue}

\* the props that stay fixed while mounted: one non-default prop at a time
Configs ==
  {<<FALSE, FALSE, "none">>, <<TRUE, FALSE, "none">>,
   <<FALSE, TRUE, "none">>, <<FALSE, FALSE, "prefix">>}

InputTexts == {<<>>, <<"B">>, <<"a">>}

(***************************************************************************)
(* ComboBox: pure helpers                                                  *)
(***************************************************************************)
toLowerCaseChar(c) ==
  CASE c = "A" -> "a" [] c = "B" -> "b" [] c = "C" -> "c" [] OTHER -> c
toLowerCase(str) == [i \in 1..Len(str) |-> toLowerCaseChar(str[i])]

\* String.prototype.includes
includes(str, sub) ==
  \E i \in 0..(Len(str) - Len(sub)) : \A j \in 1..Len(sub) : str[i + j] = sub[j]

startsWith(str, sub) ==
  Len(sub) <= Len(str) /\ \A j \in 1..Len(sub) : str[j] = sub[j]

\* the default filter: case-insensitive substring match on the label
defaultFilter(opts, text) ==
  LET Test(o) == includes(toLowerCase(Label(o)), toLowerCase(text))
  IN SelectSeq(opts, Test)

\* a caller-supplied filterFunction: case-sensitive prefix match
customFilter(opts, text) ==
  LET Test(o) == startsWith(Label(o), text)
  IN SelectSeq(opts, Test)

\* filterFunction?.(options, value) ?? options.filter(...)
applyFilter(opts, text) ==
  IF filterFunction = "prefix" THEN customFilter(opts, text)
                               ELSE defaultFilter(opts, text)

\* options.findIndex((option) => option.value === value)
findIndex(opts, v) ==
  IF \E i \in 1..Len(opts) : Value(opts[i]) = v
    THEN (CHOOSE i \in 1..Len(opts) :
            /\ Value(opts[i]) = v
            /\ \A j \in 1..(i - 1) : Value(opts[j]) # v) - 1
    ELSE NoIndex

\* options[index]: the option object, or 0 for undefined
optionAt(opts, index) ==
  IF index >= 0 /\ index < Len(opts) THEN opts[index + 1] ELSE 0

\* getOptionId: the id derived from the label, whitespace replaced by "-"
optionIds ==
  [o \in OptionObjects |->
     [i \in 1..Len(Label(o)) |-> IF Label(o)[i] = " " THEN "-" ELSE Label(o)[i]]]
getOptionId(o) == optionIds[o]

\* the record id -> __originalIndex built by options.forEach
buildExtraInfo(opts) ==
  [id \in {getOptionId(opts[i]) : i \in 1..Len(opts)} |->
     (CHOOSE i \in 1..Len(opts) :
        /\ getOptionId(opts[i]) = id
        /\ \A j \in (i + 1)..Len(opts) : getOptionId(opts[j]) # id) - 1]

\* getSelectedIndexes: one findIndex per element of the value array
getSelectedIndexes(opts, vals) ==
  [i \in 1..Len(vals) |-> findIndex(opts, vals[i])]

SeqToSet(q) == {q[i] : i \in 1..Len(q)}

(***************************************************************************)
(* comboBoxReducer (./helpers): open, close, select, multiselect, focus    *)
(***************************************************************************)
toggle(sel, index) ==
  IF index \in SeqToSet(sel)
    THEN SelectSeq(sel, LAMBDA x : x # index)
    ELSE Append(sel, index)

comboBoxReducer(st, type, value) ==
  CASE type = "open"        -> [st EXCEPT !.isOpen = TRUE]
    [] type = "close"       -> [st EXCEPT !.isOpen = FALSE]
    [] type = "select"      -> [st EXCEPT !.selectedIndex = value]
    [] type = "multiselect" -> [st EXCEPT !.selectedIndex = toggle(@, value)]
    [] type = "focus"       -> [st EXCEPT !.focusedIndex = value]

(***************************************************************************)
(* ComboBox: one render, and the effects that follow it                    *)
(***************************************************************************)
\* the menu items in the DOM: data-iui-index and aria-disabled of each
renderMenu(filtered, info) ==
  [i \in 1..Len(filtered) |->
     [index |-> info[getOptionId(filtered[i])], disabled |-> IsDisabled(filtered[i])]]

\* the render phase: optionsExtraInfoRef is filled when empty, and getMenuItem
\* renders every filtered option (it throws for an option without extra info)
render(st, opts) ==
  LET info == IF Len(opts) > 0 /\ DOMAIN st.extraInfo = {}
                THEN buildExtraInfo(opts) ELSE st.extraInfo
  IN IF \E i \in 1..Len(st.filteredOptions) :
          getOptionId(st.filteredOptions[i]) \notin DOMAIN info
       THEN [st EXCEPT !.extraInfo = info, !.phase = "crashed"]
       ELSE [st EXCEPT !.extraInfo = info,
                       !.menu = renderMenu(st.filteredOptions, info)]

\* layout effect on [isOpen, multiple, optionsRef, selectedIndex]
openCloseEffect(cur, acc, opts) ==
  IF cur.isOpen
    THEN comboBoxReducer([acc EXCEPT !.filteredOptions = opts], "focus", NoIndex)
    ELSE LET a == comboBoxReducer(acc, "focus", NoIndex)
         IN IF multiple
              THEN a
              ELSE [a EXCEPT !.inputValue =
                      IF cur.selectedIndex >= 0 /\ optionAt(opts, cur.selectedIndex) # 0
                        THEN Label(optionAt(opts, cur.selectedIndex))
                        ELSE <<>>]

\* effect on [options]: clear the extra info
clearExtraInfoEffect(acc) == [acc EXCEPT !.extraInfo = <<>>]

\* effect on [options]: filter the new options by the input value
optionsFilterEffect(cur, acc, opts) ==
  comboBoxReducer(
    [acc EXCEPT !.filteredOptions =
       IF cur.inputValue # <<>> THEN applyFilter(opts, cur.inputValue) ELSE opts],
    "focus", NoIndex)

\* effect on [multiple, options, valueProp]: update the selectedIndex
valueEffect(acc, opts, val) ==
  IF multiple
    THEN acc
    ELSE comboBoxReducer(acc, "select", findIndex(opts, val))

\* currentOptions.map(option => onChange(option.value, ...)); reading the value
\* of an undefined option throws
RECURSIVE notifyMultiple(_, _, _, _)
notifyMultiple(acc, opts, sel, i) ==
  IF i > Len(sel) THEN acc
  ELSE IF optionAt(opts, sel[i]) = 0 THEN [acc EXCEPT !.phase = "crashed"]
  ELSE notifyMultiple(
         [acc EXCEPT !.calls = Append(@,
            [value |-> Value(optionAt(opts, sel[i])),
             event |-> IF IsSelectedField(optionAt(opts, sel[i]))
                         THEN "removed" ELSE "added"])],
         opts, sel, i + 1)

\* the body of the onChange effect without the early return of the single
\* branch (currentValue === valueProp || selectedIndex === -1)
notifyWithoutValueGuard(cur, acc, opts, val) ==
  IF multiple
    THEN IF Len(cur.selectedIndex) > 0
           THEN notifyMultiple(acc, opts, cur.selectedIndex, 1)
           ELSE acc
    ELSE [acc EXCEPT !.calls =
            Append(@, [value |-> IF optionAt(opts, cur.selectedIndex) = 0
                                   THEN NoValue
                                   ELSE Value(optionAt(opts, cur.selectedIndex)),
                       event |-> "none"])]

\* the body of the onChange effect once the component is mounted
notify(cur, acc, opts, val) ==
  IF multiple
    THEN IF Len(cur.selectedIndex) > 0
           THEN notifyMultiple(acc, opts, cur.selectedIndex, 1)
           ELSE acc
    ELSE LET o == optionAt(opts, cur.selectedIndex)
             currentValue == IF o = 0 THEN NoValue ELSE Value(o)
         IN IF currentValue = val \/ cur.selectedIndex = NoIndex
              THEN acc
              ELSE [acc EXCEPT !.calls =
                      Append(@, [value |-> currentValue, event |-> "none"])]

\* the onChange effect without the mounted guard
onChangeEffectUnguarded(cur, acc, opts, val) ==
  notify(cur, [acc EXCEPT !.mounted = TRUE], opts, val)

\* effect on [..., selectedIndex, selectedOptions, ...]: call onChange
onChangeEffect(cur, acc, opts, val) ==
  IF ~acc.mounted
    THEN [acc EXCEPT !.mounted = TRUE]
    ELSE notify(cur, acc, opts, val)

\* render `cur`, run the effects whose dependencies differ from the previous
\* render `prev`, apply the state updates they queue and render again, until
\* no effect runs
RECURSIVE Settle(_, _, _, _, _, _)
Settle(prev, cur, prevProps, props, first, fuel) ==
  LET r == render(cur, props.options)
      selChanged == first \/ prev.selectedIndex # cur.selectedIndex
      runLayout == selChanged \/ prev.isOpen # cur.isOpen
      runOpts == first \/ prevProps.options # props.options \/ props.fresh
      runValue == runOpts \/ prevProps.value # props.value
      \* the effects in the order React runs them, each one only when one of
      \* its dependencies changed since the previous render
      layout(acc) ==
        IF runLayout THEN openCloseEffect(cur, acc, props.options) ELSE acc
      clearInfo(acc) == IF runOpts THEN clearExtraInfoEffect(acc) ELSE acc
      filterOpts(acc) ==
        IF runOpts THEN optionsFilterEffect(cur, acc, props.options) ELSE acc
      syncValue(acc) ==
        IF runValue THEN valueEffect(acc, props.options, props.value) ELSE acc
      callOnChange(acc) ==
        IF selChanged
          THEN onChangeEffect(cur, acc, props.options, props.value) ELSE acc
      after == callOnChange(syncValue(filterOpts(clearInfo(layout(r)))))
  IN IF r.phase = "crashed" \/ fuel = 0 \/ ~(runLayout \/ runValue) THEN r
     ELSE IF after.phase = "crashed" THEN after
     ELSE Settle(cur, after, [props EXCEPT !.fresh = FALSE],
                 [props EXCEPT !.fresh = FALSE], FALSE, fuel - 1)

\* an upper bound on the number of renders one event causes
MaxRenders == 6

Props == [options |-> options, value |-> valueProp, fresh |-> FALSE]

\* the state a handler starts from: nothing notified yet in this event
Quiet == [cb EXCEPT !.calls = <<>>]

\* an event whose handler leaves state `cur`, with the props unchanged
Handled(cur) == Settle(Quiet, cur, Props, Props, FALSE, MaxRenders)

(***************************************************************************)
(* ComboBoxInput: handleKeyDown and handleFocus                            *)
(***************************************************************************)
\* position of the first menu item with data-iui-index = index, 0 for none
positionOf(menu, index) ==
  IF \E i \in 1..Len(menu) : menu[i].index = index
    THEN CHOOSE i \in 1..Len(menu) :
           /\ menu[i].index = index
           /\ \A j \in 1..(i - 1) : menu[j].index # index
    ELSE 0

\* Number(element?.getAttribute('data-iui-index'))
indexAt(menu, pos) == IF pos = 0 THEN NaN ELSE menu[pos].index

\* element?.ariaDisabled !== 'true'
notDisabledAt(menu, pos) == pos = 0 \/ ~menu[pos].disabled

\* currentElement?.nextElementSibling ?? querySelector('[data-iui-index]')
nextPosition(menu, pos) ==
  IF pos # 0 /\ pos < Len(menu) THEN pos + 1
  ELSE IF Len(menu) > 0 THEN 1 ELSE 0

\* currentElement?.previousElementSibling ??
\*   querySelector('[data-iui-index]:last-of-type')
previousPosition(menu, pos) ==
  IF pos > 1 THEN pos - 1 ELSE Len(menu)

\* the do-while loop of ArrowDown: the index to focus, "none" when the loop
\* ends without a dispatch, "hang" when it never ends
RECURSIVE scanDown(_, _, _, _)
scanDown(menu, nextIndex, focused, fuel) ==
  LET pos == nextPosition(menu, positionOf(menu, nextIndex))
  IN IF notDisabledAt(menu, pos) THEN [kind |-> "focus", value |-> indexAt(menu, pos)]
     ELSE IF indexAt(menu, pos) = focused THEN [kind |-> "none", value |-> focused]
     ELSE IF fuel = 0 THEN [kind |-> "hang", value |-> focused]
     ELSE scanDown(menu, indexAt(menu, pos), focused, fuel - 1)

\* the do-while loop of ArrowUp
RECURSIVE scanUp(_, _, _, _)
scanUp(menu, prevIndex, focused, fuel) ==
  LET pos == previousPosition(menu, positionOf(menu, prevIndex))
  IN IF notDisabledAt(menu, pos) THEN [kind |-> "focus", value |-> indexAt(menu, pos)]
     ELSE IF indexAt(menu, pos) = focused THEN [kind |-> "none", value |-> focused]
     ELSE IF fuel = 0 THEN [kind |-> "hang", value |-> focused]
     ELSE scanUp(menu, indexAt(menu, pos), focused, fuel - 1)

afterScan(st, res) ==
  CASE res.kind = "focus" -> comboBoxReducer(st, "focus", res.value)
    [] res.kind = "none"  -> st
    [] res.kind = "hang"  -> [st EXCEPT !.phase = "hung"]

\* Object.keys(optionsExtraInfoRef.current).length
extraInfoLength(st) == Cardinality(DOMAIN st.extraInfo)

\* Object.values(optionsExtraInfoRef.current)[length - 1].__originalIndex:
\* the entry inserted last, which forEach inserts for the last option
lastExtraInfoIndex(st) ==
  CHOOSE x \in {st.extraInfo[id] : id \in DOMAIN st.extraInfo} :
    \A id \in DOMAIN st.extraInfo : st.extraInfo[id] <= x

\* case 'ArrowDown', with no option focused
firstFocus(st) == IF Len(st.menu) > 0 THEN st.menu[1].index ELSE 0

\* the do-while loop of ArrowDown, started from the focused option
\* the ArrowDown step without the ariaDisabled test: always the next sibling
arrowDownScanNoSkip(st) ==
  LET pos == nextPosition(st.menu, positionOf(st.menu, st.focusedIndex))
  IN [kind |-> "focus", value |-> indexAt(st.menu, pos)]

arrowDownScan(st) ==
  scanDown(st.menu, st.focusedIndex, st.focusedIndex, Len(st.menu) + 1)

arrowUpScan(st) ==
  scanUp(st.menu, st.focusedIndex, st.focusedIndex, Len(st.menu) + 1)

\* case 'ArrowDown' without the virtualization guard: round scrolling always
arrowDownRound(st) ==
  IF ~st.isOpen THEN comboBoxReducer(st, "open", Undefined)
  ELSE IF extraInfoLength(st) = 0 THEN st
  ELSE IF st.focusedIndex = NoIndex
    THEN comboBoxReducer(st, "focus", firstFocus(st))
  ELSE afterScan(st, arrowDownScan(st))

arrowDown(st) ==
  IF ~st.isOpen THEN comboBoxReducer(st, "open", Undefined)
  ELSE IF extraInfoLength(st) = 0 THEN st
  ELSE IF st.focusedIndex = NoIndex
    THEN comboBoxReducer(st, "focus", firstFocus(st))
  ELSE IF /\ enableVirtualization
          /\ LET pos == positionOf(st.menu, st.focusedIndex)
             IN pos = 0 \/ pos = Len(st.menu)
    THEN st
  ELSE afterScan(st, arrowDownScan(st))

arrowUp(st) ==
  IF ~st.isOpen THEN comboBoxReducer(st, "open", Undefined)
  ELSE IF extraInfoLength(st) = 0 THEN st
  ELSE IF /\ enableVirtualization
          /\ positionOf(st.menu, st.focusedIndex) <= 1
    THEN st
  ELSE IF st.focusedIndex = NoIndex
    THEN comboBoxReducer(st, "focus", lastExtraInfoIndex(st))
  ELSE afterScan(st, arrowUpScan(st))

\* case 'Enter'; the context of ComboBox supplies no onChangeHandler
enter(st) ==
  IF st.isOpen
    THEN IF multiple
           THEN IF st.focusedIndex > NoIndex
                  THEN comboBoxReducer(st, "multiselect", st.focusedIndex)
                  ELSE comboBoxReducer(st, "close", Undefined)
           ELSE comboBoxReducer(
                  comboBoxReducer(st, "select", st.focusedIndex),
                  "close", Undefined)
    ELSE comboBoxReducer(st, "open", Undefined)

\* a closing key that first commits the focused option, as Enter does
closeKeyCommitting(st) ==
  comboBoxReducer(
    IF st.focusedIndex > NoIndex
      THEN comboBoxReducer(st, IF multiple THEN "multiselect" ELSE "select",
                           st.focusedIndex)
      ELSE st,
    "close", Undefined)

\* case 'Escape' and case 'Tab'
closeKey(st) == comboBoxReducer(st, "close", Undefined)

\* handleFocus that also moves the focus to the first rendered option
handleFocusFirst(st) ==
  comboBoxReducer(comboBoxReducer(st, "open", Undefined), "focus", firstFocus(st))

handleFocus(st) == comboBoxReducer(st, "open", Undefined)

(***************************************************************************)
(* ComboBox: handleOnInput and onClickHandler                              *)
(***************************************************************************)
handleOnInput(st, text) ==
  LET a == comboBoxReducer([st EXCEPT !.inputValue = text], "open", Undefined)
      b == [a EXCEPT !.filteredOptions = applyFilter(options, text)]
  IN IF st.focusedIndex # NoIndex
       THEN comboBoxReducer(b, "focus", NoIndex)
       ELSE b

onClickHandler(st, originalIndex) ==
  IF multiple
    THEN [comboBoxReducer(st, "multiselect", originalIndex)
            EXCEPT !.inputValue = <<>>]
    ELSE comboBoxReducer(
           comboBoxReducer(st, "select", originalIndex), "close", Undefined)

(***************************************************************************)
(* ComboBox: initial state and events                                      *)
(***************************************************************************)
Unmounted(mult) ==
  [phase |-> "unmounted", mounted |-> FALSE, isOpen |-> FALSE,
   selectedIndex |-> IF mult THEN <<>> ELSE NoIndex,
   focusedIndex |-> NoIndex, inputValue |-> <<>>, filteredOptions |-> <<>>,
   extraInfo |-> <<>>, menu |-> <<>>, calls |-> <<>>]

InitCB ==
  /\ \E c \in Configs :
       multiple = c[1] /\ enableVirtualization = c[2] /\ filterFunction = c[3]
  /\ options \in OptionSeqs
  /\ valueProp \in ValueProps(multiple)
  /\ cb = Unmounted(multiple)
  /\ NoMarker
  /\ NoListener
  \* no VirtualScroll
  /\ itemsLength = 0
  /\ bufferSize = 0
  /\ scrollToIndex = 0
  /\ startNode = 0
  /\ visibleNodeCount = 0
  /\ scrollContainerHeight = 0
  /\ childHeight = [firstChild |-> 0, child |-> 0, lastChild |-> 0]
  /\ prevLength = 0
  /\ scrollTop = 0
  /\ domHeight = 0
  /\ rowRaw = 0
  /\ firstRaw = 0
  /\ translateY = 0
  /\ vsEvent = "none"

\* the state of useReducer and useState at the first render
firstRenderState ==
  [Unmounted(multiple) EXCEPT
     !.phase = "mounted",
     !.selectedIndex = IF multiple
                         THEN getSelectedIndexes(options, valueProp)
                         ELSE findIndex(options, valueProp),
     !.filteredOptions = options]

Live == cb.phase = "mounted"

Mount ==
  /\ cb.phase = "unmounted"
  /\ cb' = Settle(firstRenderState, firstRenderState, Props, Props, TRUE, MaxRenders)
  /\ UNCHANGED <<options, valueProp, multiple, enableVirtualization, filterFunction>>
  /\ UNCHANGED vsVars
  /\ UNCHANGED nmVars
  /\ UNCHANGED slVars

Event(next) ==
  /\ Live
  /\ cb' = Handled(next)
  /\ UNCHANGED <<options, valueProp, multiple, enableVirtualization, filterFunction>>
  /\ UNCHANGED vsVars
  /\ UNCHANGED nmVars
  /\ UNCHANGED slVars

Focus == Event(handleFocus(Quiet))
ArrowDown == Event(arrowDown(Quiet))
ArrowUp == Event(arrowUp(Quiet))
Enter == Event(enter(Quiet))
Escape == Event(closeKey(Quiet))
Tab == Event(closeKey(Quiet))

Type(text) ==
  /\ text # cb.inputValue
  /\ Event(handleOnInput(Quiet, text))

\* a click on the enabled menu item at position pos of the open dropdown
Click(pos) ==
  /\ cb.isOpen
  /\ ~cb.menu[pos].disabled
  /\ Event(onClickHandler(Quiet, cb.menu[pos].index))

\* the caller renders the component with another value
SetValue(v) ==
  /\ Live
  /\ v # valueProp
  /\ valueProp' = v
  /\ cb' = Settle(Quiet, Quiet, Props, [Props EXCEPT !.value = v], FALSE, MaxRenders)
  /\ UNCHANGED <<options, multiple, enableVirtualization, filterFunction>>
  /\ UNCHANGED vsVars
  /\ UNCHANGED nmVars
  /\ UNCHANGED slVars

\* the caller renders the component with a new options array
SetOptions(q) ==
  /\ Live
  /\ options' = q
  /\ cb' = Settle(Quiet, Quiet, Props,
                  [Props EXCEPT !.options = q, !.fresh = TRUE], FALSE, MaxRenders)
  /\ UNCHANGED <<valueProp, multiple, enableVirtualization, filterFunction>>
  /\ UNCHANGED vsVars
  /\ UNCHANGED nmVars
  /\ UNCHANGED slVars

NextCB ==
  \/ Mount
  \/ Focus
  \/ ArrowDown
  \/ ArrowUp
  \/ Enter
  \/ Escape
  \/ Tab
  \/ \E text \in InputTexts : Type(text)
  \/ \E pos \in 1..Len(cb.menu) : Click(pos)
  \/ \E v \in ValueProps(multiple) : SetValue(v)
  \/ \E q \in OptionSeqs : SetOptions(q)

(***************************************************************************)
(* Specifications: each widget on its own, the other one left alone        *)
(***************************************************************************)
NextVS ==
  \/ \E t \in ScrollOffsets : Scroll(t)
  \/ \E h \in ContainerHeights : Resize(h)
  \/ \E n \in ItemCounts : SetItemsLength(n)
  \/ \E b \in BufferSizes : SetBufferSize(b)

SpecVS == InitVS /\ [][NextVS]_vars

SpecCB == InitCB /\ [][NextCB]_vars

(***************************************************************************)
(* getTranslateValue on its own: the heights in the ref and the start      *)
(* index are drawn from all measured and unmeasured values, and the        *)
(* transform is computed from them as updateVirtualScroll does             *)
(***************************************************************************)
\* heights a measurement can store in the ref, and 0 for not measured
StoredHeights ==
  {0} \cup {toFixed2(raw) : raw \in RowRawHeights \cup FirstRawHeights}

InitTranslate ==
  /\ childHeight \in [firstChild : StoredHeights, child : StoredHeights,
                      lastChild : {0}]
  /\ startNode \in 0..MaxItems
  /\ translateY = 0
  /\ vsEvent = "none"
  /\ itemsLength = MaxItems
  /\ bufferSize = 0
  /\ scrollToIndex = 0
  /\ visibleNodeCount = 0
  /\ scrollContainerHeight = 0
  /\ prevLength = 0
  /\ scrollTop = 0
  /\ domHeight = 0
  /\ rowRaw = 0
  /\ firstRaw = 0
  \* no ComboBox
  /\ multiple = FALSE
  /\ enableVirtualization = FALSE
  /\ filterFunction = "none"
  /\ options = <<>>
  /\ valueProp = 0
  /\ cb = [phase |-> "unmounted"]
  /\ NoMarker
  /\ NoListener

\* parentRef.current.style.transform = `translateY(${getTranslateValue(..)}px)`
Translate ==
  /\ vsEvent = "none"
  /\ translateY' = getTranslateValue(childHeight.child, childHeight.firstChild,
                                     startNode)
  /\ vsEvent' = "translate"
  /\ UNCHANGED <<itemsLength, bufferSize, scrollToIndex, startNode,
                 visibleNodeCount, scrollContainerHeight, childHeight,
                 prevLength, scrollTop, domHeight, rowRaw, firstRaw>>
  /\ UNCHANGED cbVars
  /\ UNCHANGED nmVars
  /\ UNCHANGED slVars

SpecTranslate == InitTranslate /\ [][Translate]_vars

(***************************************************************************)
(* NotificationMarker: a function component without state; the element is *)
(* rendered for the props of the caller and re-rendered when they change   *)
(***************************************************************************)
\* a prop the caller left out
Omitted == "undefined"

NotificationTypes == {"primary", "positive", "warning", "negative"}
Booleans == {"true", "false"}

\* the props a caller writes on the element: type/urgent/active are declared
\* by NotificationMarkerProps, status/enabled are the names the tests pass
PropValues(name) ==
  CASE name = "type"      -> NotificationTypes \cup {Omitted}
    [] name = "status"    -> NotificationTypes \cup {Omitted}
    [] name = "urgent"    -> Booleans \cup {Omitted}
    [] name = "active"    -> Booleans \cup {Omitted}
    [] name = "enabled"   -> Booleans \cup {Omitted}
    [] name = "className" -> {"test-class", Omitted}
    [] name = "children"  -> {"Demo", "bell"}
PropNames ==
  {"type", "status", "urgent", "active", "enabled", "className", "children"}
MarkerPropsSets ==
  {p \in [PropNames -> UNION {PropValues(n) : n \in PropNames}] :
     \A n \in PropNames : p[n] \in PropValues(n)}

\* destructuring default: `name = dflt`
withDefault(v, dflt) == IF v = Omitted THEN dflt ELSE v

\* cx(active ? {[`iui-notification-${type}`]: true, 'iui-urgent': urgent} : {},
\*    className)
cx(active, type, urgent, className) ==
  (IF active = "true"
     THEN {"iui-notification-" \o type}
            \cup (IF urgent = "true" THEN {"iui-urgent"} ELSE {})
     ELSE {})
  \cup (IF className = Omitted THEN {} ELSE {className})

\* the element rendered by NotificationMarker(props): the class list, the
\* names of the rest props spread on the <div>, and its children
NotificationMarker(props) ==
  [classes  |-> cx(withDefault(props.active, "true"),
                   withDefault(props.type, "primary"),
                   withDefault(props.urgent, "false"),
                   props.className),
   rest     |-> {n \in {"status", "enabled"} : props[n] # Omitted},
   children |-> props.children]

\* <NotificationMarker>children</NotificationMarker>
BasicMarkerProps ==
  {p \in MarkerPropsSets :
     \A n \in PropNames \ {"children"} : p[n] = Omitted}

InitNM ==
  /\ markerProps \in BasicMarkerProps
  /\ markerDom = NotificationMarker(markerProps)
  /\ NoListener
  \* no VirtualScroll
  /\ itemsLength = 0
  /\ bufferSize = 0
  /\ scrollToIndex = 0
  /\ startNode = 0
  /\ visibleNodeCount = 0
  /\ scrollContainerHeight = 0
  /\ childHeight = [firstChild |-> 0, child |-> 0, lastChild |-> 0]
  /\ prevLength = 0
  /\ scrollTop = 0
  /\ domHeight = 0
  /\ rowRaw = 0
  /\ firstRaw = 0
  /\ translateY = 0
  /\ vsEvent = "none"
  \* no ComboBox
  /\ multiple = FALSE
  /\ enableVirtualization = FALSE
  /\ filterFunction = "none"
  /\ options = <<>>
  /\ valueProp = 0
  /\ cb = [phase |-> "unmounted"]

\* the caller re-renders the element with prop `name` changed to v
SetMarkerProp(name, v) ==
  /\ v # markerProps[name]
  /\ markerProps' = [markerProps EXCEPT ![name] = v]
  /\ markerDom' = NotificationMarker(markerProps')
  /\ UNCHANGED vsVars
  /\ UNCHANGED cbVars
  /\ UNCHANGED slVars

NextNM ==
  \E name \in PropNames : \E v \in PropValues(name) : SetMarkerProp(name, v)

SpecNM == InitNM /\ [][NextNM]_vars

(***************************************************************************)
(* VirtualScroll: the scroll listener of one instance at a time.  Function *)
(* objects are numbered in the order of their creation; useCallback makes  *)
(* a new onScroll whenever bufferSize or itemsLength changes.              *)
(***************************************************************************)
\* an upper bound on the number of onScroll callbacks created
MaxCallbacks == 5

\* onScrollRef.current: undefined
NoCallback == 0

\* getScrollableParent: the body, or a scrollable ancestor element
ScrollableParents == {"body", "element"}

\* !scrollContainer.current ||
\*   scrollContainer.current === parentRef.current?.ownerDocument.body
listensOnDocument(st) ==
  st.scrollContainer = "none" \/ st.scrollContainer = "body"

\* removeScrollListener that only ever removes from the scroll container
removeScrollListenerFromContainer(st) ==
  IF st.onScrollRef = NoCallback THEN st
  ELSE IF st.scrollContainer = "none" THEN st
  ELSE [st EXCEPT !.onElement = @ \ {st.onScrollRef}]

removeScrollListener(st) ==
  IF st.onScrollRef = NoCallback THEN st
  ELSE IF listensOnDocument(st)
    THEN IF st.parentRef THEN [st EXCEPT !.onDocument = @ \ {st.onScrollRef}]
                         ELSE st
  ELSE [st EXCEPT !.onElement = @ \ {st.onScrollRef}]

\* the body of the layout effect "Add event listener to the scrollable
\* container" for the callback onScroll
addScrollListener(st, onScroll) ==
  LET removed == [removeScrollListener(st) EXCEPT !.onScrollRef = onScroll]
  IN IF listensOnDocument(removed)
       THEN IF removed.parentRef
              THEN [removed EXCEPT !.onDocument = @ \cup {onScroll}]
              ELSE removed
       ELSE [removed EXCEPT !.onElement = @ \cup {onScroll}]

InitSL ==
  /\ \E parent \in ScrollableParents :
       listener = [phase |-> "unmounted", parent |-> parent, parentRef |-> FALSE,
                   scrollContainer |-> "none", onScroll |-> NoCallback,
                   onScrollRef |-> NoCallback, created |-> 0,
                   onDocument |-> {}, onElement |-> {}]
  /\ itemsLength \in ItemCounts
  /\ bufferSize \in BufferSizes
  \* the window of the VirtualScroll is not followed
  /\ scrollToIndex = 0
  /\ startNode = 0
  /\ visibleNodeCount = 0
  /\ scrollContainerHeight = 0
  /\ childHeight = [firstChild |-> 0, child |-> 0, lastChild |-> 0]
  /\ prevLength = 0
  /\ scrollTop = 0
  /\ domHeight = 0
  /\ rowRaw = 0
  /\ firstRaw = 0
  /\ translateY = 0
  /\ vsEvent = "none"
  \* no ComboBox
  /\ multiple = FALSE
  /\ enableVirtualization = FALSE
  /\ filterFunction = "none"
  /\ options = <<>>
  /\ valueProp = 0
  /\ cb = [phase |-> "unmounted"]
  /\ NoMarker

\* a new instance is mounted: fresh refs, the first onScroll, the layout
\* effect that finds the scrollable parent, then the listener effect
MountSL ==
  /\ listener.phase = "unmounted"
  /\ listener.created < MaxCallbacks
  /\ listener' =
       addScrollListener(
         [listener EXCEPT !.phase = "mounted", !.parentRef = TRUE,
                          !.scrollContainer = listener.parent,
                          !.onScrollRef = NoCallback,
                          !.onScroll = listener.created + 1,
                          !.created = listener.created + 1],
         listener.created + 1)
  /\ UNCHANGED vsVars
  /\ UNCHANGED cbVars
  /\ UNCHANGED nmVars

\* a re-render with another itemsLength or bufferSize: a new onScroll, the
\* cleanup of the previous listener effect, then the effect again
RerenderSL(n, b) ==
  /\ listener.phase = "mounted"
  /\ listener.created < MaxCallbacks
  /\ <<n, b>> # <<itemsLength, bufferSize>>
  /\ itemsLength' = n
  /\ bufferSize' = b
  /\ listener' =
       addScrollListener(
         removeScrollListener(
           [listener EXCEPT !.onScroll = listener.created + 1,
                            !.created = listener.created + 1]),
         listener.created + 1)
  /\ UNCHANGED <<scrollToIndex, startNode, visibleNodeCount,
                 scrollContainerHeight, childHeight, prevLength, scrollTop,
                 domHeight, rowRaw, firstRaw, translateY, vsEvent>>
  /\ UNCHANGED cbVars
  /\ UNCHANGED nmVars

\* the instance is unmounted: the cleanup of the listener effect runs, then
\* the refs of the host elements are detached
UnmountSL ==
  /\ listener.phase = "mounted"
  /\ listener' = [removeScrollListener(listener)
                    EXCEPT !.phase = "unmounted", !.parentRef = FALSE]
  /\ UNCHANGED vsVars
  /\ UNCHANGED cbVars
  /\ UNCHANGED nmVars

NextSL ==
  \/ MountSL
  \/ \E n \in ItemCounts, b \in BufferSizes : RerenderSL(n, b)
  \/ UnmountSL

SpecSL == InitSL /\ [][NextSL]_vars

(***************************************************************************)
(* VirtualScroll claims                                                    *)
(***************************************************************************)
\* C1: in every reachable state every index passed to itemRenderer lies in
\* [0, itemsLength): the materialized range is a subset of [0, itemCount).
C1_RenderedInRange ==
  \A i \in visibleChildren : 0 <= i /\ i < itemsLength

\* C1 witness: rows are measured, a scroll event moved the window, and the
\* window plus its buffers reaches past the end of the list, so the clip acts.
C1_Witness ==
  /\ vsEvent = "scroll"
  /\ childHeight.child > 0
  /\ startNode > 0
  /\ startNode + visibleNodeCount + bufferSize * 2 > itemsLength
  /\ visibleChildren # {}

\* C2 (as claimed): startIndex >= 0 and startIndex + visibleCount <= itemsLength
\* in every reachable state, also after itemsLength shrinks with no scroll or
\* resize event in between.
C2_WindowWithinItems ==
  startNode >= 0 /\ startNode + visibleNodeCount <= itemsLength

\* C2 (amended): startIndex >= 0 in every reachable state, and
\* startIndex + visibleCount <= itemsLength at mount and directly after every
\* recomputation of the window (a scroll event or an effective resize), for
\* every scroll offset, also one beyond the end of the list.
C2_WindowWithinItemsAfterRecompute ==
  /\ startNode >= 0
  /\ vsEvent \in {"mount", "scroll", "resize"}
       => startNode + visibleNodeCount <= itemsLength

\* C2 witness: a recomputation at a scroll offset beyond the end of a measured,
\* non-empty list.
C2_Witness ==
  /\ vsEvent = "scroll"
  /\ itemsLength > 0
  /\ childHeight.child > 0
  /\ scrollTop > itemsLength * childHeight.child
  /\ domHeight > 0

(***************************************************************************)
(* ComboBox claims                                                         *)
(***************************************************************************)
\* optionsRef.current[index]?.value
valueAt(opts, index) ==
  IF optionAt(opts, index) = 0 THEN NoValue ELSE Value(optionAt(opts, index))

\* a commit in single-select mode: Enter on the focused option
EnterCommits == ~multiple /\ cb.isOpen /\ cb.focusedIndex >= 0 /\ Enter

\* a commit in single-select mode: a click on the menu item at position pos
ClickCommits(pos) == ~multiple /\ Click(pos)

onChangeOnce(index) == <<[value |-> valueAt(options, index), event |-> "none"]>>

onChangeWhenChanged(index) ==
  IF index # cb.selectedIndex /\ valueAt(options, index) # valueProp
    THEN onChangeOnce(index) ELSE <<>>

\* C3 (as claimed): in single-select mode every commit of an option (Enter on
\* the focused option, or a click on an option) closes the dropdown and fires
\* onChange exactly once with that option's value, whatever the option and the
\* caller-supplied value are.
C3_CommitFiresExactlyOnce ==
  [][/\ EnterCommits =>
          ~cb'.isOpen /\ cb'.calls = onChangeOnce(cb.focusedIndex)
     /\ \A pos \in 1..Len(cb.menu) :
          ClickCommits(pos) =>
            ~cb'.isOpen /\ cb'.calls = onChangeOnce(cb.menu[pos].index)]_vars

\* C3 (amended): in single-select mode every commit of an option closes the
\* dropdown; it fires onChange exactly once, with that option's value, when the
\* option is not the one selected before and its value differs from the
\* caller-supplied value, and it fires no onChange otherwise.
C3_CommitFiresOnceWhenChanged ==
  [][/\ EnterCommits =>
          ~cb'.isOpen /\ cb'.calls = onChangeWhenChanged(cb.focusedIndex)
     /\ \A pos \in 1..Len(cb.menu) :
          ClickCommits(pos) =>
            ~cb'.isOpen /\ cb'.calls = onChangeWhenChanged(cb.menu[pos].index)]_vars

\* C3 witness: a commit closed the dropdown and notified the caller once, with
\* the value of the option that is now selected and is not the supplied value.
C3_Witness ==
  /\ ~multiple
  /\ Live
  /\ ~cb.isOpen
  /\ cb.selectedIndex >= 0
  /\ valueAt(options, cb.selectedIndex) # valueProp
  /\ cb.calls = onChangeOnce(cb.selectedIndex)

\* a user-driven selection or toggle: Enter on an open dropdown (in multiple
\* mode with an option focused), or a click on a menu item
UserSelects ==
  \/ cb.isOpen /\ (multiple => cb.focusedIndex > NoIndex) /\ Enter
  \/ \E pos \in 1..Len(cb.menu) : Click(pos)

\* C4: mounting with any caller-supplied value (a value, or an array of values
\* in multiple mode) fires no onChange, and onChange is called only by a step
\* that is a user-driven selection or toggle, so never before the first one.
C4_NoOnChangeBeforeUserSelects ==
  [][/\ Mount => cb'.calls = <<>>
     /\ cb'.calls # <<>> => UserSelects]_vars

\* C4 witness: mounted in multiple mode with a supplied value that selects an
\* option, and nothing notified.
C4_Witness ==
  /\ multiple
  /\ Live
  /\ cb.mounted
  /\ valueProp # <<>>
  /\ cb.selectedIndex = getSelectedIndexes(options, valueProp)
  /\ \E k \in 1..Len(cb.selectedIndex) : cb.selectedIndex[k] >= 0
  /\ cb.calls = <<>>

\* Enter on the focused option of an open multi-select dropdown
EnterToggles == multiple /\ cb.isOpen /\ cb.focusedIndex > NoIndex /\ Enter

onChangeMarked(index, marker) ==
  <<[value |-> valueAt(options, index), event |-> marker]>>

\* C5 (as claimed): in multiple mode Enter on a focused option that is not
\* selected adds it and fires exactly one onChange for it marked 'added', and
\* Enter on a focused option that is selected removes it and fires exactly one
\* onChange for it marked 'removed'; so two Enters on the same option add then
\* remove it with the markers 'added' then 'removed'.
C5_EnterTogglesAddedThenRemoved ==
  [][EnterToggles =>
       IF cb.focusedIndex \in SeqToSet(cb.selectedIndex)
         THEN /\ cb.focusedIndex \notin SeqToSet(cb'.selectedIndex)
              /\ cb'.calls = onChangeMarked(cb.focusedIndex, "removed")
         ELSE /\ cb.focusedIndex \in SeqToSet(cb'.selectedIndex)
              /\ cb'.calls = onChangeMarked(cb.focusedIndex, "added")]_vars

\* a click on the enabled menu item at position pos in multiple mode
ClickToggles(pos) == multiple /\ Click(pos)

onlyFor(calls, index) ==
  \A k \in 1..Len(calls) : calls[k].value = valueAt(options, index)

\* C6 (as claimed): in multiple mode a toggle (Enter on the focused option or
\* a click on an option) calls onChange only for the toggled option, never for
\* an option whose membership in the selection did not change.
C6_ToggleNotifiesOnlyToggled ==
  [][/\ EnterToggles => onlyFor(cb'.calls, cb.focusedIndex)
     /\ \A pos \in 1..Len(cb.menu) :
          ClickToggles(pos) => onlyFor(cb'.calls, cb.menu[pos].index)]_vars

\* positions of the enabled items of a rendered menu
enabledPositions(menu) == {i \in 1..Len(menu) : ~menu[i].disabled}

\* the index of the first enabled item of a rendered menu
firstEnabledIndex(menu) ==
  menu[CHOOSE i \in enabledPositions(menu) :
         \A j \in enabledPositions(menu) : i <= j].index

\* C7 (as claimed): ArrowDown on an open combo box with no focused option
\* focuses the first enabled option of the current filtered view, for every
\* option list, also one whose first option is disabled.
C7_ArrowDownFocusesFirstEnabled ==
  [][(/\ cb.isOpen
      /\ cb.focusedIndex = NoIndex
      /\ enabledPositions(cb.menu) # {}
      /\ ArrowDown)
       => cb'.focusedIndex = firstEnabledIndex(cb.menu)]_vars

\* the enabled position that follows pos in cyclic order
nextEnabledPosition(menu, pos) ==
  LET n == Len(menu)
      at(d) == ((pos + d - 1) % n) + 1
      d0 == CHOOSE d \in 1..n :
              /\ at(d) \in enabledPositions(menu)
              /\ \A e \in 1..(d - 1) : at(e) \notin enabledPositions(menu)
  IN at(d0)

\* the focused indexes after 1..k presses of ArrowDown starting from state st
RECURSIVE visitedByArrowDown(_, _)
visitedByArrowDown(st, k) ==
  IF k = 0 THEN {}
  ELSE {arrowDown(st).focusedIndex}
         \cup visitedByArrowDown(arrowDown(st), k - 1)

\* C8: with virtualization disabled and the dropdown open, ArrowDown from a
\* focused option of the filtered view moves the focus to the next enabled
\* option in filtered order, skipping disabled options and wrapping from the
\* last to the first; pressing it once per enabled option visits every enabled
\* option of the view.
C8_ArrowDownNextEnabled ==
  [][(/\ ~enableVirtualization
      /\ cb.isOpen
      /\ positionOf(cb.menu, cb.focusedIndex) # 0
      /\ enabledPositions(cb.menu) # {}
      /\ ArrowDown)
       => /\ cb'.focusedIndex =
               cb.menu[nextEnabledPosition(
                         cb.menu, positionOf(cb.menu, cb.focusedIndex))].index
          /\ visitedByArrowDown(Quiet, Cardinality(enabledPositions(cb.menu)))
               = {cb.menu[i].index : i \in enabledPositions(cb.menu)}]_vars

\* C8 witness: the focus sits on the enabled last item of a menu that holds a
\* disabled item, having skipped it or about to wrap around.
C8_Witness ==
  /\ ~enableVirtualization
  /\ Live
  /\ cb.isOpen
  /\ Len(cb.menu) >= 2
  /\ positionOf(cb.menu, cb.focusedIndex) = Len(cb.menu)
  /\ ~cb.menu[Len(cb.menu)].disabled
  /\ \E i \in 1..Len(cb.menu) : cb.menu[i].disabled

\* C9 (as claimed): after every typed input the filtered view is the filter of
\* the full option list by the text just typed, in original order; clearing
\* the text gives all options.
C9_FilteredViewIsFilterOfAllOptions ==
  [][\A text \in InputTexts :
       Type(text) => cb'.filteredOptions = applyFilter(options, text)]_vars

\* indexes in q of the values selected before, in multiple mode
reselected(q) ==
  [k \in 1..Len(cb.selectedIndex) |->
     findIndex(q, valueAt(options, cb.selectedIndex[k]))]

\* C10 (as claimed): when the caller supplies a new option sequence, the
\* id -> originalIndex mapping is the one of the new sequence and the
\* selection is recomputed against the new sequence by value equality (from
\* the caller-supplied value or from the values selected before), in single
\* and in multiple mode.
C10_NewOptionsRebuildMappingAndSelection ==
  [][\A q \in OptionSeqs :
       SetOptions(q) =>
         /\ cb'.extraInfo = buildExtraInfo(q)
         /\ IF multiple
              THEN \/ cb'.selectedIndex = getSelectedIndexes(q, valueProp)
                   \/ cb'.selectedIndex = reselected(q)
              ELSE \/ cb'.selectedIndex = findIndex(q, valueProp)
                   \/ cb'.selectedIndex =
                        findIndex(q, valueAt(options, cb.selectedIndex))]_vars

\* C11 (as claimed): whenever the caller-controlled value prop changes, the
\* selected index (single mode) or the selected index set (multiple mode) is
\* recomputed by lookup over the current options by value equality, so that
\* the selection corresponds to the supplied value once the change settled.
C11_ValueChangeRecomputesSelection ==
  [][\A v \in ValueProps(multiple) :
       SetValue(v) =>
         cb'.selectedIndex = IF multiple THEN getSelectedIndexes(options, v)
                                         ELSE findIndex(options, v)]_vars

\* C12 (as claimed): in every reachable state focusedIndex is none or the
\* originalIndex of an option that is rendered in the current filtered view
\* and is not disabled.
C12_FocusOnEnabledFilteredOption ==
  Live =>
    \/ cb.focusedIndex = NoIndex
    \/ \E i \in 1..Len(cb.menu) :
         cb.menu[i].index = cb.focusedIndex /\ ~cb.menu[i].disabled

(***************************************************************************)
(* VirtualScroll claims, continued                                         *)
(***************************************************************************)
\* C13 (as claimed): getTranslateValue(rowHeight, firstRowHeight, startIndex)
\* returns 0 if and only if startIndex = 0, for all non-negative heights, also
\* unmeasured heights of 0; for startIndex > 0 it returns
\* rowHeight * (startIndex - 1) + firstRowHeight.
C13_TranslateZeroIffStartZero ==
  vsEvent = "translate" =>
    /\ translateY = 0 <=> startNode = 0
    /\ startNode > 0 =>
         translateY = childHeight.child * (startNode - 1) + childHeight.firstChild

\* C13 (amended): getTranslateValue returns 0 when startIndex = 0 and
\* rowHeight * (startIndex - 1) + firstRowHeight when startIndex > 0; it
\* returns 0 exactly when startIndex = 0 provided firstRowHeight > 0.
C13_TranslateZeroIffStartZeroWhenMeasured ==
  vsEvent = "translate" =>
    /\ startNode = 0 => translateY = 0
    /\ startNode > 0 =>
         translateY = childHeight.child * (startNode - 1) + childHeight.firstChild
    /\ childHeight.firstChild > 0 => (translateY = 0 <=> startNode = 0)

\* C13 witness: the transform was computed for a start index beyond 1 with a
\* measured first row whose height differs from the height of the other rows.
C13_Witness ==
  /\ vsEvent = "translate"
  /\ startNode > 1
  /\ childHeight.child > 0
  /\ childHeight.firstChild > 0
  /\ childHeight.firstChild # childHeight.child
  /\ translateY > 0


\* C14: a recomputation of the window at scroll offset 0 (a scroll event at
\* offset 0, or an effective resize that recomputes from offset 0) yields
\* startIndex = 0, for every row height, itemsLength and bufferSize.
C14_OffsetZeroStartsAtZero ==
  (vsEvent \in {"scroll", "resize"} /\ scrollTop = 0) => startNode = 0

\* C14 witness: the window was recomputed by a scroll event at offset 0 with
\* measured rows, no buffer and a non-empty window.
C14_Witness ==
  /\ vsEvent = "scroll"
  /\ scrollTop = 0
  /\ childHeight.child > 0
  /\ bufferSize = 0
  /\ visibleNodeCount > 0
  /\ startNode = 0


\* the layout effect on scrollContainerHeight runs updateVirtualScroll for the
\* reported height h
EffectiveResize(h) ==
  Resize(h) /\ h # scrollContainerHeight /\ h # 0

\* C15 (as claimed): a scroll-to-index request for index k > 0 with measured
\* rowHeight > 0 and firstRowHeight > 0, also when they differ, yields
\* rawStart = k and so startIndex = max(0, k - bufferSize).
C15_ScrollToIndexStartsAtIndex ==
  [][\A h \in ContainerHeights :
       (/\ EffectiveResize(h)
        /\ scrollToIndex > 0
        /\ childHeight.child > 0
        /\ childHeight.firstChild > 0)
       => startNode' = Max(0, scrollToIndex - bufferSize)]_vars


\* C16 (as claimed): scrollToIndex positions the list on the initial render
\* only; once the container has a height, a later resize recomputes the window
\* from the container's current scroll offset and does not scroll the
\* container back to scrollToIndex.
C16_ResizeKeepsScrollOffset ==
  [][\A h \in ContainerHeights :
       (EffectiveResize(h) /\ scrollContainerHeight # 0)
       => /\ scrollTop' = scrollTop
          /\ startNode' =
               Max(0, getNumberOfNodesInHeight(childHeight.child, scrollTop)
                        - bufferSize)]_vars


(***************************************************************************)
(* NotificationMarker claims                                               *)
(***************************************************************************)
\* C17 (as claimed): the class iui-notification-<status> for the status the
\* caller supplies (primary when omitted) and, when urgent is true, the class
\* iui-urgent are on the element exactly when the marker is enabled; with
\* enabled = false neither class is applied; the children are rendered in
\* either case.
C17_ClassesExactlyWhenEnabled ==
  DOMAIN markerProps # {} =>
    LET status  == withDefault(markerProps.status, "primary")
        enabled == withDefault(markerProps.enabled, "true") = "true"
        urgent  == withDefault(markerProps.urgent, "false") = "true"
    IN /\ ("iui-notification-" \o status) \in markerDom.classes <=> enabled
       /\ "iui-urgent" \in markerDom.classes <=> (enabled /\ urgent)
       /\ markerDom.children = markerProps.children


(***************************************************************************)
(* ComboBox claims, continued                                              *)
(***************************************************************************)
\* C18 (as claimed): in multiple mode Enter on an open dropdown with a focused
\* option toggles that option's membership in the selection set, leaves the
\* dropdown open, clears the filter text and fires a change notification.
C18_MultiEnterTogglesClearsNotifies ==
  [][EnterToggles =>
       /\ (cb.focusedIndex \in SeqToSet(cb'.selectedIndex))
            <=> (cb.focusedIndex \notin SeqToSet(cb.selectedIndex))
       /\ cb'.isOpen
       /\ cb'.inputValue = <<>>
       /\ cb'.calls # <<>>]_vars


\* what the caller and the user see of a settled ComboBox: the selection,
\* open or closed, the filter text, and the onChange calls of the last step
observed(st) ==
  IF st.phase = "mounted"
    THEN [selectedIndex |-> st.selectedIndex, isOpen |-> st.isOpen,
          inputValue |-> st.inputValue, calls |-> st.calls]
    ELSE [phase |-> st.phase]

\* the component after Enter is pressed while the option `index` is focused
enterOn(index) ==
  LET focused == [Quiet EXCEPT !.focusedIndex = index]
  IN Settle(focused, enter(focused), Props, Props, FALSE, MaxRenders)

\* C19 (as claimed): a click on an option leaves the same selection, the same
\* open/closed state, the same filter text and the same onChange calls as
\* Enter pressed while that option is focused, in single and multiple mode.
C19_ClickSameAsEnter ==
  [][\A pos \in 1..Len(cb.menu) :
       Click(pos) => observed(cb') = observed(enterOn(cb.menu[pos].index))]_vars


\* the index of the last enabled item of a rendered menu
lastEnabledIndex(menu) ==
  menu[CHOOSE i \in enabledPositions(menu) :
         \A j \in enabledPositions(menu) : i >= j].index

\* the enabled position that precedes pos in cyclic order
previousEnabledPosition(menu, pos) ==
  LET n == Len(menu)
      at(d) == ((pos - d - 1 + n) % n) + 1
      d0 == CHOOSE d \in 1..n :
              /\ at(d) \in enabledPositions(menu)
              /\ \A e \in 1..(d - 1) : at(e) \notin enabledPositions(menu)
  IN at(d0)

\* C20 (as claimed): ArrowUp mirrors ArrowDown: on a closed combo box it opens
\* the dropdown; on an open one with no focused option it focuses the last
\* enabled option of the current filtered view, with and without
\* virtualization; from a focused option of the view it moves to the previous
\* enabled option in filtered order, wrapping from the first to the last when
\* virtualization is disabled.
C20_ArrowUpMirrorsArrowDown ==
  Live =>
    LET after == Handled(arrowUp(Quiet))
    IN /\ ~cb.isOpen => after.isOpen
       /\ (/\ cb.isOpen
           /\ cb.focusedIndex = NoIndex
           /\ enabledPositions(cb.menu) # {})
            => after.focusedIndex = lastEnabledIndex(cb.menu)
       /\ (/\ cb.isOpen
           /\ ~enableVirtualization
           /\ positionOf(cb.menu, cb.focusedIndex) # 0
           /\ enabledPositions(cb.menu) # {})
            => after.focusedIndex =
                 cb.menu[previousEnabledPosition(
                           cb.menu, positionOf(cb.menu, cb.focusedIndex))].index

\* C21: with virtualization enabled, ArrowDown while the focused option is the
\* last rendered option leaves focusedIndex unchanged (no wrap to the first),
\* and ArrowUp while it is the first rendered option leaves it unchanged.
C21_VirtualizedArrowsDoNotWrap ==
  (Live /\ enableVirtualization /\ cb.isOpen /\ Len(cb.menu) > 0) =>
    /\ positionOf(cb.menu, cb.focusedIndex) = Len(cb.menu)
         => Handled(arrowDown(Quiet)).focusedIndex = cb.focusedIndex
    /\ positionOf(cb.menu, cb.focusedIndex) = 1
         => Handled(arrowUp(Quiet)).focusedIndex = cb.focusedIndex

\* C21 witness: a virtualized open dropdown with several rendered options, the
\* first of them enabled, whose last option is focused: ArrowDown would wrap
\* to the first option if round scrolling were allowed.
C21_Witness ==
  /\ Live
  /\ enableVirtualization
  /\ cb.isOpen
  /\ Len(cb.menu) > 1
  /\ ~cb.menu[1].disabled
  /\ positionOf(cb.menu, cb.focusedIndex) = Len(cb.menu)
  /\ Handled(arrowDown(Quiet)).focusedIndex = cb.focusedIndex


\* the dropdown goes from open to closed in this step, by any cause
Closes == Live /\ cb.isOpen /\ cb'.phase = "mounted" /\ ~cb'.isOpen

\* the label of the selected option of a single-select state, '' for none
selectedLabel(st) ==
  IF st.selectedIndex >= 0 /\ optionAt(options, st.selectedIndex) # 0
    THEN Label(optionAt(options, st.selectedIndex))
    ELSE <<>>

\* C22 (as claimed): whenever the dropdown goes from open to closed, by any
\* cause, focusedIndex is reset to none and the filter is reset (in multiple
\* mode no filter text is left); in single-select mode the input text becomes
\* the label of the selected option, or '' if none is selected.
C22_CloseResetsFocusFilterAndText ==
  [][Closes =>
       /\ cb'.focusedIndex = NoIndex
       /\ multiple => cb'.inputValue = <<>>
       /\ ~multiple => cb'.inputValue = selectedLabel(cb')]_vars


\* C23: Escape and Tab on an open dropdown close it, leave the selection
\* unchanged and fire no onChange, whatever option is focused.
C23_EscapeTabCloseWithoutSelecting ==
  (Live /\ cb.isOpen) =>
    LET after == Handled(closeKey(Quiet))
    IN /\ after.phase = "mounted"
       /\ ~after.isOpen
       /\ after.selectedIndex = cb.selectedIndex
       /\ after.calls = <<>>

\* C23 witness: an open dropdown whose focused option is enabled, is not
\* selected and differs in value from the supplied value, so that committing
\* it would change the selection and notify; Escape or Tab closes it.
C23_Witness ==
  /\ Live
  /\ cb.isOpen
  /\ cb.focusedIndex > NoIndex
  /\ positionOf(cb.menu, cb.focusedIndex) # 0
  /\ ~cb.menu[positionOf(cb.menu, cb.focusedIndex)].disabled
  /\ IF multiple
       THEN cb.focusedIndex \notin SeqToSet(cb.selectedIndex)
       ELSE cb.focusedIndex # cb.selectedIndex
              /\ valueAt(options, cb.focusedIndex) # valueProp
  /\ ~Handled(closeKey(Quiet)).isOpen


\* C24 (as claimed): a typed character, in any state, updates the filter text,
\* opens the dropdown and resets focusedIndex to none, and the filtered view
\* afterwards is the one for the new text: it is not overwritten by the reset
\* to all options that runs when the dropdown opens.
C24_TypingFiltersAndOpens ==
  Live =>
    \A text \in InputTexts \ {cb.inputValue} :
      LET after == Handled(handleOnInput(Quiet, text))
      IN /\ after.phase = "mounted"
         /\ after.inputValue = text
         /\ after.isOpen
         /\ after.focusedIndex = NoIndex
         /\ after.filteredOptions = applyFilter(options, text)


\* C25 (as claimed): input focus gained, ArrowDown while closed and Enter while
\* closed each open the dropdown, change neither the selection nor
\* focusedIndex, and fire no onChange.
C25_OpeningKeepsSelectionAndFocus ==
  Live =>
    LET opened(after) == /\ after.phase = "mounted"
                         /\ after.isOpen
                         /\ after.selectedIndex = cb.selectedIndex
                         /\ after.focusedIndex = cb.focusedIndex
                         /\ after.calls = <<>>
    IN /\ opened(Handled(handleFocus(Quiet)))
       /\ ~cb.isOpen => /\ opened(Handled(arrowDown(Quiet)))
                        /\ opened(Handled(enter(Quiet)))


\* C25 witness: a closed single-select combo box with an option selected,
\* which Enter opens without touching the selection or the focus.
C25_Witness ==
  /\ Live
  /\ ~multiple
  /\ ~cb.isOpen
  /\ cb.selectedIndex >= 0
  /\ Len(options) > 1
  /\ Handled(enter(Quiet)).isOpen
  /\ Handled(enter(Quiet)).selectedIndex = cb.selectedIndex


(***************************************************************************)
(* VirtualScroll claims: measurement, empty list, recomputation            *)
(***************************************************************************)
\* C26 (as claimed): row heights are measured when materialized items first
\* exist and are not measured again as long as the materialized set stays
\* non-empty, whatever scroll, resize or item-count event follows: a step
\* from a non-empty materialized set to a non-empty one keeps the heights.
C26_MeasuredOnceWhileNonEmpty ==
  [][(prevLength > 0 /\ prevLength' > 0) => childHeight' = childHeight]_vars


\* C27 (as claimed): when only one item is materialized (no second item
\* exists), the uniform row height used for windowing falls back to the first
\* item's measured height, so it is non-zero whenever that height is.
C27_SingleItemFallsBackToFirstHeight ==
  prevLength = 1 =>
    /\ childHeight.child = childHeight.firstChild
    /\ childHeight.firstChild > 0 => childHeight.child > 0

\* minHeight of the outer wrapper, as a render computes it from the ref:
\* Math.max(itemsLength - 2, 0) * child + firstChild + lastChild
minHeight ==
  Max(itemsLength - 2, 0) * childHeight.child
    + childHeight.firstChild + childHeight.lastChild

\* C28 (as claimed): whenever itemsLength is 0 the materialized range is
\* empty and the reserved height (minHeight of the outer wrapper) is 0, also
\* when itemsLength drops to 0 after rows were measured.
C28_EmptyListReservesNothing ==
  itemsLength = 0 => (visibleChildren = {} /\ minHeight = 0)


windowAt(offset, height) ==
  LET start == getNumberOfNodesInHeight(childHeight.child, offset)
  IN [startNode |-> Max(0, start - bufferSize),
      visibleNodeCount |-> getVisibleNodeCount(childHeight.child, start,
                                               itemsLength, height)]

\* the offset the resize effect recomputes from
resizeOffset ==
  IF scrollToIndex > 0
    THEN (scrollToIndex - 1) * childHeight.child + childHeight.firstChild
    ELSE scrollTop

\* the window state is recomputed in this step for offset and height
Recomputed(offset, height) ==
  /\ startNode' = windowAt(offset, height).startNode
  /\ visibleNodeCount' = windowAt(offset, height).visibleNodeCount

\* C30 (as claimed): the window state is recomputed on every scroll event and
\* on every resize event of the scrollable ancestor, also a resize to height
\* 0 and a resize that leaves the height unchanged.
C30_RecomputedOnEveryScrollAndResize ==
  [][/\ \A t \in ScrollOffsets : Scroll(t) => Recomputed(t, domHeight)
     /\ \A h \in ContainerHeights : Resize(h) => Recomputed(resizeOffset, h)]_vars

\* C30 (amended): the window state is recomputed on every scroll event, and on
\* a resize event exactly when it changes the container height to a non-zero
\* value; a resize to height 0 or to the same height leaves the window state
\* as it was.
C30_RecomputedOnScrollAndEffectiveResize ==
  [][/\ \A t \in ScrollOffsets : Scroll(t) => Recomputed(t, domHeight)
     /\ \A h \in ContainerHeights :
          Resize(h) =>
            IF h # scrollContainerHeight /\ h # 0
              THEN Recomputed(resizeOffset, h)
              ELSE UNCHANGED <<startNode, visibleNodeCount>>]_vars

\* C30 witness: a resize that did not change the non-zero container height was
\* handled and the window, stale since itemsLength shrank, was not recomputed.
C30_Witness ==
  /\ vsEvent = "resizeIgnored"
  /\ scrollContainerHeight > 0
  /\ childHeight.child > 0
  /\ startNode + visibleNodeCount > itemsLength


(***************************************************************************)
(* VirtualScroll claims: the scroll listener                               *)
(***************************************************************************)
\* the scroll listeners of the instance that are registered
registered == listener.onDocument \cup listener.onElement

\* C31: after any sequence of mount, re-render with a changed bufferSize or
\* itemsLength (which replaces the scroll callback) and unmount, at most one
\* scroll listener of the instance is registered, it is the latest callback,
\* and none remains registered after unmount.
C31_OneLatestScrollListener ==
  DOMAIN listener # {} =>
    /\ Cardinality(registered) <= 1
    /\ listener.phase = "mounted" => registered = {listener.onScroll}
    /\ listener.phase = "unmounted" => registered = {}

\* C31 witness: a mounted instance whose callback is the fourth or a later
\* one created, after re-renders or remounts, holds that single listener.
C31_Witness ==
  /\ DOMAIN listener # {}
  /\ listener.phase = "mounted"
  /\ listener.created >= 4
  /\ listener.onScroll = listener.created
  /\ registered = {listener.onScroll}


(***************************************************************************)
(* ComboBox claims: Enter without focus, termination, selected indexes     *)
(***************************************************************************)
\* C32 (as claimed): in single-select mode Enter on an open dropdown with no
\* focused option closes the dropdown, leaves the selected option unchanged
\* and fires no onChange.
C32_EnterWithoutFocusKeepsSelection ==
  (Live /\ ~multiple /\ cb.isOpen /\ cb.focusedIndex = NoIndex) =>
    LET after == Handled(enter(Quiet))
    IN /\ after.phase = "mounted"
       /\ ~after.isOpen
       /\ after.selectedIndex = cb.selectedIndex
       /\ after.calls = <<>>


\* C33 (as claimed): every ArrowDown and ArrowUp key handler terminates: the
\* search for the next or previous enabled option stops after at most one
\* pass over the rendered options, also when every rendered option is
\* disabled, when the focused index is not among the rendered options, and
\* when no option is rendered.
C33_ArrowHandlersTerminate ==
  Live =>
    /\ arrowDown(Quiet).phase # "hung"
    /\ arrowUp(Quiet).phase # "hung"


\* C34 (as claimed): in multiple mode the selected indices are always
\* positions of the options array, 0 <= index < options.length, and no index
\* occurs twice, also directly after mounting with a value array that holds a
\* value no option has.
C34_SelectedIndicesValid ==
  (Live /\ multiple) =>
    /\ \A i \in 1..Len(cb.selectedIndex) :
         cb.selectedIndex[i] \in 0..(Len(options) - 1)
    /\ \A i, j \in 1..Len(cb.selectedIndex) :
         cb.selectedIndex[i] = cb.selectedIndex[j] => i = j

=============================================================================
